---------------------------- MODULE Spec2Model ----------------------------
(***************************************************************************)
(* Repo_Based_Interviewer: the repository ingestion and indexing pipeline. *)
(*                                                                         *)
(*   src/app.py                   the Streamlit application: recursive     *)
(*                                listing download, conversion to text,    *)
(*                                chunking and the Pinecone index rebuild  *)
(*   src/fetch_repo_text_files.py the archive-download fetcher and the     *)
(*                                content classifier                       *)
(*                                                                         *)
(* File names are sequences of one-character strings, so that lower-casing *)
(* and extension splitting are computed as the code computes them.         *)
(***************************************************************************)
EXTENDS Integers, Sequences, FiniteSets, TLC

VARIABLES
    \* ---- classifier (fetch_repo_text_files.py: should_skip_file / is_binary_file)
    cPath,        \* the relative path handed to the classifier
    cContent,     \* the bytes of the file
    cIoErr,       \* whether opening/reading the file raises
    cDecision,    \* "none" before the classifier ran, then "KEEP" or "SKIP"
    \* ---- url parsing (parse_github_url, and the head of download_github_repo)
    uUrl,         \* the url string
    uFetch,       \* what parse_github_url made of it
    uApp,         \* what download_github_repo made of it
    \* ---- archive strategy (fetch_repo_text_files.py: fetch_repo)
    fPc,          \* position in fetch_repo
    fBranch,      \* branch parsed from the URL ("" when the URL names none)
    fRemote,      \* the branches whose archive download succeeds
    fTree,        \* the files of the extracted archive
    fUrls,        \* zip_urls
    fNext,        \* index of the next zip url the loop tries
    fTried,       \* the urls download_zip was called on, in order
    fSuccess,     \* success
    fUsed,        \* the branch whose archive is in zip_path ("" when none)
    fWalk,        \* directories os.walk still has to visit
    fFiles,       \* files of the directory being visited, not yet handled
    fCopied,      \* copied
    fSkipped,     \* skipped
    fOut,         \* relative paths copied to output_dir
    \* ---- pipeline (app.py), one entry per user session
    pc,           \* position of the session's script run
    repo,         \* the repository the session's run ingests
    stack,        \* call stack of download_recursive
    requests,     \* network requests the run's download issued
    chunks,       \* chunks of the run (by the file each derives from)
    existing,     \* whether INDEX_NAME was in the list list_indexes returned
    seen,         \* the index generation list_indexes reported (0: none)
    calls,        \* index-provider calls of the run, in order
    err,          \* the error the run reported with st.error ("" when none)
    runs,         \* number of runs started so far
    \* ---- shared by all sessions
    localDir,     \* data/repo_files: the files, each with its relative path, the
                  \* repository it was fetched from and what was written to it
    combinedFile, \* data/combined_repo.txt: the files it was built from
    flattenedFile,\* data/flattened_repo.txt
    index,        \* the provider's index named INDEX_NAME
    nextGen       \* generation the next created index gets

clsVars   == <<cPath, cContent, cIoErr, cDecision>>
urlVars   == <<uUrl, uFetch, uApp>>
fetchVars == <<fPc, fBranch, fRemote, fTree, fUrls, fNext, fTried, fSuccess,
               fUsed, fWalk, fFiles, fCopied, fSkipped, fOut>>
sessVars  == <<pc, repo, stack, requests, chunks, existing, seen, calls, err, runs>>
sharedVars == <<localDir, combinedFile, flattenedFile, index, nextGen>>
pipeVars  == <<sessVars, sharedVars>>
vars      == <<clsVars, urlVars, fetchVars, pipeVars>>

-----------------------------------------------------------------------------
(* Text helpers: str.lower, os.path.splitext, pathlib suffix               *)

LowerMap == ("P" :> "p") @@ ("N" :> "n") @@ ("G" :> "g") @@ ("M" :> "m")
            @@ ("S" :> "s") @@ ("O" :> "o")

\* str.lower on one character
LowerChar(c) == IF c \in DOMAIN LowerMap THEN LowerMap[c] ELSE c

\* str.lower
Lower(name) == [i \in 1..Len(name) |-> LowerChar(name[i])]

\* str.rfind('.') as a 1-based position, 0 when the name holds no dot
RFindDot(name) ==
    LET dots == {i \in 1..Len(name) : name[i] = "."}
    IN  IF dots = {} THEN 0 ELSE CHOOSE i \in dots : \A j \in dots : j <= i

\* slice name[i:] (1-based i)
From(name, i) == SubSeq(name, i, Len(name))

\* pathlib's PurePath.suffix of a final component: the part from the last dot,
\* unless that dot is the first or the last character
suffix(name) ==
    LET i == RFindDot(name)
    IN  IF 1 < i /\ i < Len(name) THEN From(name, i) ELSE <<>>

\* os.path.splitext(name)[1]: the part from the last dot, unless only leading
\* dots precede it
splitext(name) ==
    LET i == RFindDot(name)
    IN  IF i > 0 /\ \E j \in 1..(i - 1) : name[j] /= "."
        THEN From(name, i) ELSE <<>>

Range(f) == {f[i] : i \in DOMAIN f}

Last(s) == s[Len(s)]

-----------------------------------------------------------------------------
(* Configuration of both files                                             *)

\* app.py SKIP_EXTENSIONS
APP_SKIP_EXTENSIONS ==
    { <<".","p","n","g">>, <<".","j","p","g">>, <<".","j","p","e","g">>, <<".","g","i","f">>,
      <<".","b","m","p">>, <<".","s","v","g">>, <<".","w","e","b","p">>, <<".","i","c","o">>,
      <<".","t","i","f","f">>, <<".","t","i","f">>, <<".","m","p","3">>, <<".","m","p","4">>,
      <<".","w","a","v">>, <<".","a","v","i">>, <<".","m","o","v">>, <<".","z","i","p">>,
      <<".","t","a","r">>, <<".","g","z">>, <<".","r","a","r">>, <<".","7","z">>,
      <<".","p","d","f">>, <<".","e","x","e">>, <<".","d","l","l">>, <<".","s","o">>,
      <<".","c","s","v">>, <<".","t","s","v">> }

\* app.py TEXT_EXTENSIONS
TEXT_EXTENSIONS ==
    { <<".","t","x","t">>, <<".","p","y">>, <<".","m","d">>, <<".","j","s","o","n">>,
      <<".","y","a","m","l">>, <<".","y","m","l">>, <<".","h","t","m","l">>, <<".","j","s">>,
      <<".","j","s","x">>, <<".","t","s">>, <<".","t","s","x">> }

\* fetch_repo_text_files.py IMAGE_EXTS
IMAGE_EXTS ==
    { <<".","p","n","g">>, <<".","j","p","g">>, <<".","j","p","e","g">>, <<".","g","i","f">>,
      <<".","b","m","p">>, <<".","s","v","g">>, <<".","w","e","b","p">>, <<".","i","c","o">>,
      <<".","t","i","f","f">>, <<".","t","i","f">> }

\* fetch_repo_text_files.py SKIP_EXTENSIONS
SKIP_EXTENSIONS ==
    { <<".","e","x","e">>, <<".","d","l","l">>, <<".","s","o">>, <<".","c","l","a","s","s">>,
      <<".","j","a","r">>, <<".","p","y","c">>, <<".","p","y","o">>, <<".","d","b">>,
      <<".","s","q","l","i","t","e">>, <<".","b","i","n">> }

\* fetch_repo_text_files.py SKIP_DIR_NAMES, and the list app.py tests names against
SKIP_DIR_NAMES ==
    { <<"n","o","d","e","_","m","o","d","u","l","e","s">>,
      <<".","g","i","t">>,
      <<"_","_","p","y","c","a","c","h","e","_","_">> }

\* TEXT_SAMPLE_SIZE is 4096 in the source; the model reads this many bytes
TEXT_SAMPLE_SIZE == 10

\* NON_TEXT_THRESHOLD = 0.30, as a percentage
NON_TEXT_THRESHOLD_PCT == 30

\* longest file content the model considers: one byte more than a sample
MaxContentLen == TEXT_SAMPLE_SIZE + 1

-----------------------------------------------------------------------------
(* Content classifier (fetch_repo_text_files.py)                           *)

\* f.read(TEXT_SAMPLE_SIZE)
ReadSample(content) ==
    IF Len(content) <= TEXT_SAMPLE_SIZE THEN content
    ELSE SubSeq(content, 1, TEXT_SAMPLE_SIZE)

\* the body of the loop over the sample: whether byte b counts as non-text
CountsAsNonText(b) ==
    IF b \in {9, 10, 13} THEN FALSE
    ELSE IF 32 <= b /\ b <= 126 THEN FALSE
    ELSE IF b >= 128 THEN FALSE
    ELSE TRUE

RECURSIVE CountNonText(_, _)
\* non_text after the loop has handled sample[i..]
CountNonText(sample, i) ==
    IF i > Len(sample) THEN 0
    ELSE (IF CountsAsNonText(sample[i]) THEN 1 ELSE 0) + CountNonText(sample, i + 1)

\* a ">=" comparison against the threshold instead of ">"
is_binary_file_ge(content, ioErr) ==
    IF ioErr THEN TRUE
    ELSE LET sample == ReadSample(content)
         IN  IF sample = <<>> THEN FALSE
             ELSE IF 0 \in Range(sample) THEN TRUE
             ELSE LET non_text == CountNonText(sample, 1)
                      len == IF Len(sample) > 1 THEN Len(sample) ELSE 1
                  IN  100 * non_text >= NON_TEXT_THRESHOLD_PCT * len

\* is_binary_file: frac = non_text / max(1, len(sample)); frac > 0.30 is
\* compared exactly as 100 * non_text > 30 * max(1, len(sample))
is_binary_file(content, ioErr) ==
    IF ioErr THEN TRUE
    ELSE LET sample == ReadSample(content)
         IN  IF sample = <<>> THEN FALSE
             ELSE IF 0 \in Range(sample) THEN TRUE
             ELSE LET non_text == CountNonText(sample, 1)
                      len == IF Len(sample) > 1 THEN Len(sample) ELSE 1
                  IN  100 * non_text > NON_TEXT_THRESHOLD_PCT * len

\* should_skip_file: rel_path is the sequence of its parts
should_skip_file(rel_path) ==
    LET ext == Lower(suffix(Last(rel_path)))
    IN  IF ext \in IMAGE_EXTS \/ ext \in SKIP_EXTENSIONS THEN TRUE
        ELSE \E k \in 1..Len(rel_path) : rel_path[k] \in SKIP_DIR_NAMES

\* the decision fetch_repo takes for one file (lines 166-177)
Classify(rel_path, content, ioErr) ==
    IF should_skip_file(rel_path) THEN "SKIP"
    ELSE IF is_binary_file(content, ioErr) THEN "SKIP"
    ELSE "KEEP"

-----------------------------------------------------------------------------
(* File and directory names used as inputs                                 *)

A_PY     == <<"a",".","p","y">>
B_MD     == <<"b",".","m","d">>
LOGO_PNG == <<"l","o","g","o",".","P","N","G">>
DOT_PNG  == <<".","p","n","g">>
DOT_GIT  == <<".","g","i","t">>
UP_GIT   == <<".","G","I","T">>
CONFIG   == <<"c","o","n","f","i","g">>
VENDOR   == <<"v","e","n","d","o","r">>
SRC      == <<"s","r","c">>
M_SO     == <<"m",".","s","o">>
T_CSV    == <<"t",".","c","s","v">>
X_PYC    == <<"x",".","p","y","c">>

\* representative byte values: NUL, control bytes, the allowed control bytes,
\* both ends of the printable range, DEL, and bytes of multi-byte encodings
Bytes == {0, 7, 9, 10, 13, 31, 32, 126, 127, 128, 255}

RECURSIVE Rep(_, _)
\* n copies of byte b
Rep(b, n) == IF n = 0 THEN <<>> ELSE <<b>> \o Rep(b, n - 1)

\* file contents: a run of one byte followed by a run of another
TwoRuns ==
    { Rep(b1, n1) \o Rep(b2, n2) :
        b1 \in Bytes, b2 \in {0, 7, 32},
        n1 \in 0..MaxContentLen, n2 \in 0..MaxContentLen }

Contents == { c \in TwoRuns : Len(c) <= MaxContentLen }

ClassifierPaths ==
    { <<A_PY>>, <<LOGO_PNG>>, <<VENDOR, DOT_GIT, CONFIG>>, <<DOT_GIT>>,
      <<UP_GIT, CONFIG>>, <<DOT_PNG>>, <<M_SO>>, <<SRC, T_CSV>>,
      <<LOGO_PNG, A_PY>>, <<X_PYC>> }

-----------------------------------------------------------------------------
(* The classifier applied to one file                                      *)

InitCls ==
    /\ cPath \in ClassifierPaths
    /\ cContent \in Contents
    /\ cIoErr \in BOOLEAN
    /\ cDecision = "none"

\* the classifier is not in use
IdleCls ==
    /\ cPath = <<A_PY>>
    /\ cContent = <<>>
    /\ cIoErr = FALSE
    /\ cDecision = "none"

\* fetch_repo's handling of one file: should_skip_file, then is_binary_file
ClassifyFile ==
    /\ cDecision = "none"
    /\ cDecision' = Classify(cPath, cContent, cIoErr)
    /\ UNCHANGED <<cPath, cContent, cIoErr>>
    /\ UNCHANGED <<urlVars, fetchVars, pipeVars>>

-----------------------------------------------------------------------------
(* Archive strategy: fetch_repo (fetch_repo_text_files.py)                 *)

RECURSIVE SetToSeq(_)
\* the order in which a listing (os.walk, the contents API) yields a set of
\* entries: some fixed order
SetToSeq(S) ==
    IF S = {} THEN <<>>
    ELSE LET x == CHOOSE y \in S : TRUE IN <<x>> \o SetToSeq(S \ {x})

IsPrefix(p, q) == Len(p) <= Len(q) /\ SubSeq(q, 1, Len(p)) = p

\* the files directly in directory d of a tree
FilesIn(tree, d) ==
    { f \in tree : Len(f.path) = Len(d) + 1 /\ IsPrefix(d, f.path) }

\* the sub-directories directly in directory d of a tree
DirsIn(tree, d) ==
    { SubSeq(f.path, 1, Len(d) + 1) :
        f \in { g \in tree : Len(g.path) > Len(d) + 1 /\ IsPrefix(d, g.path) } }

TextContent   == <<32, 126, 10>>
BinaryContent == <<7, 7, 32>>

File(path, content) == [path |-> path, content |-> content, ioErr |-> FALSE]

\* extracted archives: the three-file repository of the scenario, a repository
\* with upper-case and nested names, and one holding a file named .git
FetchTrees ==
    { { File(<<A_PY>>, TextContent), File(<<LOGO_PNG>>, BinaryContent),
        File(<<VENDOR, DOT_GIT, CONFIG>>, TextContent) },
      { File(<<SRC, T_CSV>>, TextContent), File(<<UP_GIT, CONFIG>>, TextContent),
        File(<<X_PYC>>, BinaryContent), File(<<B_MD>>, BinaryContent),
        [path |-> <<SRC, A_PY>>, content |-> TextContent, ioErr |-> TRUE] },
      { File(<<DOT_GIT>>, TextContent), File(<<A_PY>>, <<>>),
        File(<<SRC, DOT_GIT, A_PY>>, TextContent) } }

Branches == {"master", "main", "dev"}

\* get_zip_url: the archive of one branch, or the pair (master, main); an
\* archive url is modelled by the branch it names
get_zip_url(branch) ==
    IF branch /= "" THEN branch ELSE <<"master", "main">>

\* fetch_repo lines 120-124
ZipUrls(branch) ==
    IF branch /= "" THEN <<get_zip_url(branch)>> ELSE get_zip_url("")

InitFetch ==
    /\ fPc = "start"
    /\ fBranch \in {""} \cup Branches
    /\ fRemote \in SUBSET Branches
    /\ fTree \in FetchTrees
    /\ fUrls = <<>>
    /\ fNext = 1
    /\ fTried = <<>>
    /\ fSuccess = FALSE
    /\ fUsed = ""
    /\ fWalk = <<>>
    /\ fFiles = <<>>
    /\ fCopied = 0
    /\ fSkipped = 0
    /\ fOut = {}

\* fetch_repo is not in use
IdleFetch ==
    /\ fPc = "idle"
    /\ fBranch = ""
    /\ fRemote = {}
    /\ fTree = {}
    /\ fUrls = <<>>
    /\ fNext = 1
    /\ fTried = <<>>
    /\ fSuccess = FALSE
    /\ fUsed = ""
    /\ fWalk = <<>>
    /\ fFiles = <<>>
    /\ fCopied = 0
    /\ fSkipped = 0
    /\ fOut = {}

\* lines 114-127: the zip urls are picked
FetchStart ==
    /\ fPc = "start"
    /\ fUrls' = ZipUrls(fBranch)
    /\ fPc' = "download"
    /\ UNCHANGED <<fBranch, fRemote, fTree, fNext, fTried, fSuccess, fUsed,
                   fWalk, fFiles, fCopied, fSkipped, fOut>>
    /\ UNCHANGED <<clsVars, urlVars, pipeVars>>

\* the loop without its break: every url is tried
TryDownloadNoBreak ==
    /\ fPc = "download"
    /\ fNext <= Len(fUrls)
    /\ LET z == fUrls[fNext] IN
        /\ fTried' = Append(fTried, z)
        /\ fNext' = fNext + 1
        /\ IF z \in fRemote
           THEN /\ fSuccess' = TRUE
                /\ fUsed' = z
                /\ fPc' = IF fNext = Len(fUrls) THEN "extract" ELSE "download"
           ELSE /\ fPc' = IF fNext = Len(fUrls) /\ fSuccess THEN "extract"
                          ELSE "download"
                /\ UNCHANGED <<fSuccess, fUsed>>
    /\ UNCHANGED <<fBranch, fRemote, fTree, fUrls, fWalk, fFiles, fCopied,
                   fSkipped, fOut>>
    /\ UNCHANGED <<clsVars, urlVars, pipeVars>>

\* one iteration of the loop of lines 128-136: download_zip on the next url;
\* success breaks out of the loop, an exception moves on to the next url
TryDownload ==
    /\ fPc = "download"
    /\ fNext <= Len(fUrls)
    /\ LET z == fUrls[fNext] IN
        /\ fTried' = Append(fTried, z)
        /\ IF z \in fRemote
           THEN /\ fSuccess' = TRUE
                /\ fUsed' = z
                /\ fPc' = "extract"
                /\ UNCHANGED fNext
           ELSE /\ fNext' = fNext + 1
                /\ UNCHANGED <<fSuccess, fUsed, fPc>>
    /\ UNCHANGED <<fBranch, fRemote, fTree, fUrls, fWalk, fFiles, fCopied,
                   fSkipped, fOut>>
    /\ UNCHANGED <<clsVars, urlVars, pipeVars>>

\* lines 137-138: the loop ran out of urls without a success
DownloadFailed ==
    /\ fPc = "download"
    /\ fNext > Len(fUrls)
    /\ ~fSuccess
    /\ fPc' = "failed"
    /\ UNCHANGED <<fBranch, fRemote, fTree, fUrls, fNext, fTried, fSuccess,
                   fUsed, fWalk, fFiles, fCopied, fSkipped, fOut>>
    /\ UNCHANGED <<clsVars, urlVars, pipeVars>>

\* lines 140-154: the archive is extracted and os.walk starts at its root
Extract ==
    /\ fPc = "extract"
    /\ fPc' = "walk"
    /\ fWalk' = << <<>> >>
    /\ UNCHANGED <<fBranch, fRemote, fTree, fUrls, fNext, fTried, fSuccess,
                   fUsed, fFiles, fCopied, fSkipped, fOut>>
    /\ UNCHANGED <<clsVars, urlVars, pipeVars>>

\* lines 143-144: zipfile raises on a corrupt archive
ExtractFails ==
    /\ fPc = "extract"
    /\ fPc' = "failed"
    /\ UNCHANGED <<fBranch, fRemote, fTree, fUrls, fNext, fTried, fSuccess,
                   fUsed, fWalk, fFiles, fCopied, fSkipped, fOut>>
    /\ UNCHANGED <<clsVars, urlVars, pipeVars>>

\* lines 159-161: os.walk yields the next directory; the skipped directory
\* names are removed in place, so os.walk never descends into them
WalkDir ==
    /\ fPc = "walk"
    /\ fFiles = <<>>
    /\ fWalk /= <<>>
    /\ LET d == Head(fWalk)
           dirs == { e \in DirsIn(fTree, d) : Last(e) \notin SKIP_DIR_NAMES }
       IN  /\ fWalk' = SetToSeq(dirs) \o Tail(fWalk)
           /\ fFiles' = SetToSeq(FilesIn(fTree, d))
    /\ UNCHANGED <<fPc, fBranch, fRemote, fTree, fUrls, fNext, fTried,
                   fSuccess, fUsed, fCopied, fSkipped, fOut>>
    /\ UNCHANGED <<clsVars, urlVars, pipeVars>>

\* lines 162-177: one file of the directory being visited
VisitFile ==
    /\ fPc = "walk"
    /\ fFiles /= <<>>
    /\ LET f == Head(fFiles) IN
        /\ fFiles' = Tail(fFiles)
        /\ IF should_skip_file(f.path)
           THEN /\ fSkipped' = fSkipped + 1
                /\ UNCHANGED <<fCopied, fOut>>
           ELSE IF is_binary_file(f.content, f.ioErr)
           THEN /\ fSkipped' = fSkipped + 1
                /\ UNCHANGED <<fCopied, fOut>>
           ELSE /\ fOut' = fOut \cup {f.path}
                /\ fCopied' = fCopied + 1
                /\ UNCHANGED fSkipped
    /\ UNCHANGED <<fPc, fBranch, fRemote, fTree, fUrls, fNext, fTried,
                   fSuccess, fUsed, fWalk>>
    /\ UNCHANGED <<clsVars, urlVars, pipeVars>>

\* lines 179-180: the walk is over
FetchDone ==
    /\ fPc = "walk"
    /\ fFiles = <<>>
    /\ fWalk = <<>>
    /\ fPc' = "done"
    /\ UNCHANGED <<fBranch, fRemote, fTree, fUrls, fNext, fTried, fSuccess,
                   fUsed, fWalk, fFiles, fCopied, fSkipped, fOut>>
    /\ UNCHANGED <<clsVars, urlVars, pipeVars>>

-----------------------------------------------------------------------------
(* Pipeline of app.py: the sessions, the repositories, the index provider  *)

Sessions == {"s1", "s2"}

\* number of pipeline runs (button clicks) the model follows
MaxRuns == 2

\* the provider has no index named INDEX_NAME
NoIndex == [gen |-> 0, ready |-> FALSE, entries |-> {}]

\* an index left by a build before the model starts, holding a chunk of it
OldIndex ==
    [gen |-> 1, ready |-> TRUE,
     entries |-> {[path |-> <<A_PY>>, origin |-> "old", body |-> "content"]}]

\* remote repositories, each the set of the paths of its files
RepoTree(r) ==
    CASE r = "A" -> { <<A_PY>>, <<LOGO_PNG>>, <<DOT_GIT, CONFIG>> }
      [] r = "B" -> { <<B_MD>>, <<SRC, T_CSV>> }
      [] r = "C" -> { <<UP_GIT, A_PY>>, <<SRC, DOT_GIT, B_MD>>, <<SRC, DOT_PNG>>,
                      <<SRC, VENDOR, M_SO>>, <<X_PYC>>, <<DOT_GIT>> }
      [] r = "D" -> { <<VENDOR, DOT_GIT, CONFIG>>, <<VENDOR, A_PY>>, <<T_CSV>> }

PipelineRepos == {"A", "B"}
ListingRepos  == {"A", "B", "C", "D"}

\* the items the contents API lists for directory d of repository r: name,
\* type and path of every file and sub-directory directly in d
Items(r, d) ==
    { [name |-> Last(f), type |-> "file", path |-> f] :
        f \in { g \in RepoTree(r) : Len(g) = Len(d) + 1 /\ IsPrefix(d, g) } }
    \cup
    { [name |-> Last(e), type |-> "dir", path |-> e] :
        e \in { SubSeq(g, 1, Len(d) + 1) :
                  g \in { h \in RepoTree(r) :
                            Len(h) > Len(d) + 1 /\ IsPrefix(d, h) } } }

\* one call of download_recursive: the directory, whether its listing has
\* been fetched, and the items the loop has not handled yet
Frame(d) == [dir |-> d, listed |-> FALSE, items |-> <<>>]

InitShared ==
    /\ localDir = {}
    /\ combinedFile = {}
    /\ flattenedFile = {}
    /\ index \in {NoIndex, OldIndex}
    /\ nextGen = 2

InitSess ==
    /\ pc = [s \in Sessions |-> "idle"]
    /\ repo = [s \in Sessions |-> ""]
    /\ stack = [s \in Sessions |-> <<>>]
    /\ requests = [s \in Sessions |-> {}]
    /\ chunks = [s \in Sessions |-> {}]
    /\ existing = [s \in Sessions |-> FALSE]
    /\ seen = [s \in Sessions |-> 0]
    /\ calls = [s \in Sessions |-> <<>>]
    /\ err = [s \in Sessions |-> ""]
    /\ runs = 0

InitPipe == InitSess /\ InitShared

\* the application is not in use
IdlePipe ==
    /\ InitSess
    /\ localDir = {}
    /\ combinedFile = {}
    /\ flattenedFile = {}
    /\ index = NoIndex
    /\ nextGen = 2

\* process_repository's except clause: the run ends with (None, 0)
Fails(s, why) ==
    /\ pc' = [pc EXCEPT ![s] = "failed"]
    /\ err' = [err EXCEPT ![s] = why]

\* the button handler (lines 310-318) up to download_github_repo's
\* os.makedirs: a url that matches starts the recursive download at the root
Start(s, r) ==
    /\ pc[s] \in {"idle", "done", "failed"}
    /\ runs < MaxRuns
    /\ runs' = runs + 1
    /\ pc' = [pc EXCEPT ![s] = "download"]
    /\ repo' = [repo EXCEPT ![s] = r]
    /\ stack' = [stack EXCEPT ![s] = <<Frame(<<>>)>>]
    /\ requests' = [requests EXCEPT ![s] = {}]
    /\ chunks' = [chunks EXCEPT ![s] = {}]
    /\ existing' = [existing EXCEPT ![s] = FALSE]
    /\ seen' = [seen EXCEPT ![s] = 0]
    /\ calls' = [calls EXCEPT ![s] = <<>>]
    /\ err' = [err EXCEPT ![s] = ""]
    /\ UNCHANGED sharedVars
    /\ UNCHANGED <<clsVars, urlVars, fetchVars>>

\* lines 54-57: the url does not match, download_github_repo raises ValueError
StartInvalid(s) ==
    /\ pc[s] \in {"idle", "done", "failed"}
    /\ runs < MaxRuns
    /\ runs' = runs + 1
    /\ Fails(s, "url")
    /\ repo' = [repo EXCEPT ![s] = ""]
    /\ stack' = [stack EXCEPT ![s] = <<>>]
    /\ requests' = [requests EXCEPT ![s] = {}]
    /\ chunks' = [chunks EXCEPT ![s] = {}]
    /\ existing' = [existing EXCEPT ![s] = FALSE]
    /\ seen' = [seen EXCEPT ![s] = 0]
    /\ calls' = [calls EXCEPT ![s] = <<>>]
    /\ UNCHANGED sharedVars
    /\ UNCHANGED <<clsVars, urlVars, fetchVars>>

-----------------------------------------------------------------------------
(* download_github_repo.download_recursive                                 *)

Top(s) == Head(stack[s])

\* line 76: names the loop passes over whatever their type
SkipByName(name) == Lower(name) \in SKIP_DIR_NAMES

\* the extension test without the lower-casing
SkipByExtensionCaseSensitive(name) == splitext(name) \in APP_SKIP_EXTENSIONS

\* lines 84-86: files whose extension is in SKIP_EXTENSIONS are not fetched
SkipByExtension(name) == Lower(splitext(name)) \in APP_SKIP_EXTENSIONS

\* lines 65-70 of one call: the listing of the directory is requested; an API error
\* message ends this call of download_recursive, an exception ends the run
ListDir(s) ==
    /\ pc[s] = "download"
    /\ stack[s] /= <<>>
    /\ ~Top(s).listed
    /\ requests' = [requests EXCEPT ![s] =
                      @ \cup {[kind |-> "list", path |-> Top(s).dir]}]
    /\ \E outcome \in {"ok", "api_error", "exception"} :
        CASE outcome = "ok" ->
               /\ stack' = [stack EXCEPT ![s] =
                    <<[dir |-> Top(s).dir, listed |-> TRUE,
                       items |-> SetToSeq(Items(repo[s], Top(s).dir))]>>
                    \o Tail(@)]
               /\ UNCHANGED <<pc, err>>
          [] outcome = "api_error" ->
               /\ stack' = [stack EXCEPT ![s] =
                    <<[dir |-> Top(s).dir, listed |-> TRUE, items |-> <<>>]>>
                    \o Tail(@)]
               /\ err' = [err EXCEPT ![s] = "GitHub API Error"]
               /\ UNCHANGED pc
          [] outcome = "exception" ->
               /\ Fails(s, "listing")
               /\ stack' = [stack EXCEPT ![s] = <<>>]
    /\ UNCHANGED <<repo, chunks, existing, seen, calls, runs, sharedVars>>
    /\ UNCHANGED <<clsVars, urlVars, fetchVars>>

\* the rest of the loop body once the item's name was handled
RestOfFrame(s) ==
    <<[dir |-> Top(s).dir, listed |-> TRUE, items |-> Tail(Top(s).items)]>>
    \o Tail(stack[s])

\* lines 72-90: one item of the listing. requests.get on download_url either
\* returns the content, returns the body of an error response (no status is
\* checked, so that body is written to the file), or raises
VisitItem(s) ==
    /\ pc[s] = "download"
    /\ stack[s] /= <<>>
    /\ Top(s).listed
    /\ Top(s).items /= <<>>
    /\ LET item == Head(Top(s).items) IN
        IF SkipByName(item.name)
        THEN /\ stack' = [stack EXCEPT ![s] = RestOfFrame(s)]
             /\ UNCHANGED <<pc, err, requests, localDir>>
        ELSE IF item.type = "dir"
        THEN /\ stack' = [stack EXCEPT ![s] = <<Frame(item.path)>> \o RestOfFrame(s)]
             /\ UNCHANGED <<pc, err, requests, localDir>>
        ELSE IF SkipByExtension(item.name)
        THEN /\ stack' = [stack EXCEPT ![s] = RestOfFrame(s)]
             /\ UNCHANGED <<pc, err, requests, localDir>>
        ELSE /\ requests' = [requests EXCEPT ![s] =
                               @ \cup {[kind |-> "download", path |-> item.path]}]
             /\ \E outcome \in {"ok", "http_error", "exception"} :
                 CASE outcome = "ok" ->
                        /\ localDir' =
                             {f \in localDir : f.path /= item.path}
                             \cup {[path |-> item.path, origin |-> repo[s],
                                    body |-> "content"]}
                        /\ stack' = [stack EXCEPT ![s] = RestOfFrame(s)]
                        /\ UNCHANGED <<pc, err>>
                   [] outcome = "http_error" ->
                        /\ localDir' =
                             {f \in localDir : f.path /= item.path}
                             \cup {[path |-> item.path, origin |-> repo[s],
                                    body |-> "error body"]}
                        /\ stack' = [stack EXCEPT ![s] = RestOfFrame(s)]
                        /\ UNCHANGED <<pc, err>>
                   [] outcome = "exception" ->
                        /\ Fails(s, "file fetch")
                        /\ stack' = [stack EXCEPT ![s] = <<>>]
                        /\ UNCHANGED localDir
    /\ UNCHANGED <<repo, chunks, existing, seen, calls, runs, combinedFile,
                   flattenedFile, index, nextGen>>
    /\ UNCHANGED <<clsVars, urlVars, fetchVars>>

\* the loop of one call is over: download_recursive returns, and with the
\* outermost call download_github_repo returns True (line 93)
ReturnDir(s) ==
    /\ pc[s] = "download"
    /\ stack[s] /= <<>>
    /\ Top(s).listed
    /\ Top(s).items = <<>>
    /\ stack' = [stack EXCEPT ![s] = Tail(@)]
    /\ pc' = [pc EXCEPT ![s] = IF Tail(stack[s]) = <<>> THEN "convert" ELSE "download"]
    /\ UNCHANGED <<repo, requests, chunks, existing, seen, calls, err, runs,
                   sharedVars>>
    /\ UNCHANGED <<clsVars, urlVars, fetchVars>>

-----------------------------------------------------------------------------
(* convert_repo_to_text, flatten_text, convert_to_single_line, the splitter *)

IPYNB == <<".","i","p","y","n","b">>

\* lines 102-117: the files os.walk finds under data/repo_files whose
\* extension is a text extension or .ipynb go into the combined text
InCorpus(f) ==
    LET ext == Lower(splitext(Last(f.path)))
    IN  ext \in TEXT_EXTENSIONS \/ ext = IPYNB

\* convert_repo_to_text: every file found under input_dir is considered
ConvertRepoToText(s) ==
    /\ pc[s] = "convert"
    /\ combinedFile' = {f \in localDir : InCorpus(f)}
    /\ pc' = [pc EXCEPT ![s] = "flatten"]
    /\ UNCHANGED <<repo, stack, requests, chunks, existing, seen, calls, err,
                   runs, localDir, flattenedFile, index, nextGen>>
    /\ UNCHANGED <<clsVars, urlVars, fetchVars>>

\* flatten_text: whitespace is collapsed, the text stays that of the same files
FlattenText(s) ==
    /\ pc[s] = "flatten"
    /\ flattenedFile' = combinedFile
    /\ pc' = [pc EXCEPT ![s] = "split"]
    /\ UNCHANGED <<repo, stack, requests, chunks, existing, seen, calls, err,
                   runs, localDir, combinedFile, index, nextGen>>
    /\ UNCHANGED <<clsVars, urlVars, fetchVars>>

\* lines 185-195: the flattened file is read back and split; a chunk is
\* modelled by the file its text derives from
SplitText(s) ==
    /\ pc[s] = "split"
    /\ chunks' = [chunks EXCEPT ![s] = flattenedFile]
    /\ pc' = [pc EXCEPT ![s] = "list"]
    /\ UNCHANGED <<repo, stack, requests, existing, seen, calls, err, runs,
                   sharedVars>>
    /\ UNCHANGED <<clsVars, urlVars, fetchVars>>

-----------------------------------------------------------------------------
(* initialize_pinecone and the population of the index                      *)

NoChunk == [path |-> <<>>, origin |-> "", body |-> ""]

\* a call to the index provider as the run issues it: the generation and
\* readiness of the index named INDEX_NAME at that moment (gen 0: none), the
\* generation a create made, the chunk an upsert carried
Call(op, made, chunk) ==
    [op |-> op, gen |-> index.gen, ready |-> index.ready, made |-> made,
     chunk |-> chunk]

Log(s, c) == calls' = [calls EXCEPT ![s] = Append(@, c)]

\* what follows list_indexes when the name is never looked up in the list
AfterListNoDelete(ex) == "create"

\* lines 157-161: delete_index is called only when the name is in the list
AfterList(ex) == IF ex THEN "delete" ELSE "create"

\* line 155: list_indexes
ListIndexes(s) ==
    /\ pc[s] = "list"
    /\ Log(s, Call("list", 0, NoChunk))
    /\ existing' = [existing EXCEPT ![s] = index.gen /= 0]
    /\ seen' = [seen EXCEPT ![s] = index.gen]
    /\ pc' = [pc EXCEPT ![s] = AfterList(index.gen /= 0)]
    /\ UNCHANGED <<repo, stack, requests, chunks, err, runs, sharedVars>>
    /\ UNCHANGED <<clsVars, urlVars, fetchVars>>

\* lines 158-159: delete_index returns once the provider has removed the
\* index; it raises when no index of that name exists
DeleteIndex(s) ==
    /\ pc[s] = "delete"
    /\ Log(s, Call("delete", 0, NoChunk))
    /\ IF index.gen = 0
       THEN /\ Fails(s, "delete")
            /\ UNCHANGED index
       ELSE /\ index' = NoIndex
            /\ pc' = [pc EXCEPT ![s] = "create"]
            /\ UNCHANGED err
    /\ UNCHANGED <<repo, stack, requests, chunks, existing, seen, runs,
                   localDir, combinedFile, flattenedFile, nextGen>>
    /\ UNCHANGED <<clsVars, urlVars, fetchVars>>

\* lines 161-166: create_index makes a new, empty index that is not ready
\* yet; it raises when an index of that name exists
CreateIndex(s) ==
    /\ pc[s] = "create"
    /\ IF index.gen /= 0
       THEN /\ Log(s, Call("create", 0, NoChunk))
            /\ Fails(s, "create")
            /\ UNCHANGED <<index, nextGen>>
       ELSE /\ Log(s, Call("create", nextGen, NoChunk))
            /\ index' = [gen |-> nextGen, ready |-> FALSE, entries |-> {}]
            /\ nextGen' = nextGen + 1
            /\ pc' = [pc EXCEPT ![s] = "sleep"]
            /\ UNCHANGED err
    /\ UNCHANGED <<repo, stack, requests, chunks, existing, seen, runs,
                   localDir, combinedFile, flattenedFile>>
    /\ UNCHANGED <<clsVars, urlVars, fetchVars>>

\* the provider finishes provisioning the index, at a time of its own
ProviderReady ==
    /\ index.gen /= 0
    /\ ~index.ready
    /\ index' = [index EXCEPT !.ready = TRUE]
    /\ UNCHANGED <<sessVars, localDir, combinedFile, flattenedFile, nextGen>>
    /\ UNCHANGED <<clsVars, urlVars, fetchVars>>

\* lines 167-169: time.sleep(30) is over and pc.Index(INDEX_NAME) returns the
\* handle, whatever the state of the index; it raises when there is none
SleepDone(s) ==
    /\ pc[s] = "sleep"
    /\ Log(s, Call("Index", 0, NoChunk))
    /\ IF index.gen = 0
       THEN Fails(s, "Index")
       ELSE /\ pc' = [pc EXCEPT ![s] = "fit"]
            /\ UNCHANGED err
    /\ UNCHANGED <<repo, stack, requests, chunks, existing, seen, runs,
                   sharedVars>>
    /\ UNCHANGED <<clsVars, urlVars, fetchVars>>

\* lines 203-218: the embedding model is loaded, the BM25 encoder is fitted
\* on the chunks and dumped, the retriever is built
FitEncoder(s) ==
    /\ pc[s] = "fit"
    /\ pc' = [pc EXCEPT ![s] = "upsert"]
    /\ UNCHANGED <<repo, stack, requests, chunks, existing, seen, calls, err,
                   runs, sharedVars>>
    /\ UNCHANGED <<clsVars, urlVars, fetchVars>>

\* the chunks the run's upserts have carried so far
Uploaded(s) ==
    { calls[s][i].chunk :
        i \in { j \in 1..Len(calls[s]) : calls[s][j].op = "upsert" } }

\* line 221, one batch of add_texts: the chunk is written to the index that
\* has the name at that moment; it raises when there is none
Upsert(s) ==
    /\ pc[s] = "upsert"
    /\ chunks[s] \ Uploaded(s) /= {}
    /\ LET c == CHOOSE x \in chunks[s] \ Uploaded(s) : TRUE IN
        /\ Log(s, Call("upsert", 0, c))
        /\ IF index.gen = 0
           THEN /\ Fails(s, "upsert")
                /\ UNCHANGED index
           ELSE /\ index' = [index EXCEPT !.entries = @ \cup {c}]
                /\ UNCHANGED <<pc, err>>
    /\ UNCHANGED <<repo, stack, requests, chunks, existing, seen, runs,
                   localDir, combinedFile, flattenedFile, nextGen>>
    /\ UNCHANGED <<clsVars, urlVars, fetchVars>>

\* line 223: every chunk was uploaded, process_repository returns the retriever
Finish(s) ==
    /\ pc[s] = "upsert"
    /\ chunks[s] \ Uploaded(s) = {}
    /\ pc' = [pc EXCEPT ![s] = "done"]
    /\ UNCHANGED <<repo, stack, requests, chunks, existing, seen, calls, err,
                   runs, sharedVars>>
    /\ UNCHANGED <<clsVars, urlVars, fetchVars>>

\* the steps that call an external service or library and may raise
MayRaise == {"list", "delete", "create", "sleep", "fit", "upsert"}

\* lines 225-227: an exception raised by the step the run is at
Raise(s) ==
    /\ pc[s] \in MayRaise
    /\ Fails(s, pc[s])
    /\ UNCHANGED <<repo, stack, requests, chunks, existing, seen, calls, runs,
                   sharedVars>>
    /\ UNCHANGED <<clsVars, urlVars, fetchVars>>

-----------------------------------------------------------------------------
(* Url parsing: parse_github_url (fetch_repo_text_files.py) and the head of *)
(* download_github_repo (app.py); a url is a sequence of characters         *)

RECURSIVE LStrip(_)
LStrip(u) == IF u /= <<>> /\ Head(u) = " " THEN LStrip(Tail(u)) ELSE u

RECURSIVE RStrip(_)
RStrip(u) ==
    IF u /= <<>> /\ Last(u) = " " THEN RStrip(SubSeq(u, 1, Len(u) - 1)) ELSE u

\* str.strip
Strip(u) == RStrip(LStrip(u))

\* the literal head of a pattern matched at the start of u; with anyDot the
\* dots of the pattern are unescaped and match any character
MatchHead(u, pat, anyDot) ==
    /\ Len(u) >= Len(pat)
    /\ \A i \in 1..Len(pat) : u[i] = pat[i] \/ (anyDot /\ pat[i] = ".")

\* what [^/]+ takes from position i: the characters up to the next slash
Seg(u, i) ==
    LET stops == {j \in i..Len(u) : u[j] = "/"}
        e == IF stops = {} THEN Len(u) + 1
             ELSE CHOOSE j \in stops : \A k \in stops : j <= k
    IN  SubSeq(u, i, e - 1)

\* str.removesuffix
removesuffix(x, suf) ==
    IF Len(x) >= Len(suf) /\ SubSeq(x, Len(x) - Len(suf) + 1, Len(x)) = suf
    THEN SubSeq(x, 1, Len(x) - Len(suf)) ELSE x

RECURSIVE Replace(_, _)
\* str.replace(old, ""): every occurrence, left to right
Replace(u, old) ==
    IF Len(u) < Len(old) THEN u
    ELSE IF SubSeq(u, 1, Len(old)) = old
         THEN Replace(SubSeq(u, Len(old) + 1, Len(u)), old)
         ELSE <<Head(u)>> \o Replace(Tail(u), old)

HTTPS_GITHUB == <<"h","t","t","p","s",":","/","/","g","i","t","h","u","b",".","c","o","m","/">>
HTTP_GITHUB  == <<"h","t","t","p",":","/","/","g","i","t","h","u","b",".","c","o","m","/">>
GIT_SUFFIX   == <<".","g","i","t">>
TREE         == <<"t","r","e","e">>

NoRef     == [st |-> "none", owner |-> <<>>, name |-> <<>>, branch |-> <<>>]
ParseError == [st |-> "error", owner |-> <<>>, name |-> <<>>, branch |-> <<>>]

\* ([^/]+)/([^/]+)(?:/(.*))? matched in u from position i: the two groups
\* and the tail, or no match
OwnerRepo(u, i) ==
    LET owner == Seg(u, i)
        k == i + Len(owner)
        rp == Seg(u, k + 1)
        t == k + 1 + Len(rp)
    IN  IF owner = <<>> \/ k > Len(u) \/ rp = <<>>
        THEN [ok |-> FALSE, owner |-> <<>>, repo |-> <<>>, tail |-> <<>>]
        ELSE [ok |-> TRUE, owner |-> owner, repo |-> rp,
              tail |-> IF t <= Len(u) THEN SubSeq(u, t + 1, Len(u)) ELSE <<>>]

\* lines 44-49: tail.split('/'), the branch is the part after a leading tree
BranchOf(tail) ==
    LET p0 == Seg(tail, 1)
    IN  IF Len(p0) < Len(tail) /\ p0 = TREE THEN Seg(tail, Len(p0) + 2)
        ELSE <<>>

\* parse_github_url
parse_github_url(url) ==
    LET u == Strip(url)
        i == IF MatchHead(u, HTTPS_GITHUB, FALSE) THEN Len(HTTPS_GITHUB) + 1
             ELSE IF MatchHead(u, HTTP_GITHUB, FALSE) THEN Len(HTTP_GITHUB) + 1
             ELSE 0
        m == OwnerRepo(u, i)
    IN  IF i = 0 \/ ~m.ok THEN ParseError
        ELSE [st |-> "ok", owner |-> m.owner,
              name |-> removesuffix(m.repo, GIT_SUFFIX),
              branch |-> BranchOf(m.tail)]

\* download_github_repo lines 53-59: replace, then match
download_github_repo_parse(url) ==
    LET u == Replace(url, GIT_SUFFIX)
        m == OwnerRepo(u, Len(HTTPS_GITHUB) + 1)
    IN  IF ~MatchHead(u, HTTPS_GITHUB, TRUE) \/ ~m.ok THEN ParseError
        ELSE [st |-> "ok", owner |-> m.owner, name |-> m.repo, branch |-> <<>>]

UrlSchemes == { <<"h","t","t","p","s",":","/","/">>, <<"h","t","t","p",":","/","/">>, <<" ","h","t","t","p","s",":","/","/">> }
UrlHosts   == { <<"g","i","t","h","u","b",".","c","o","m">>, <<"g","i","t","l","a","b",".","c","o","m">>, <<"g","i","t","h","u","b","x","c","o","m">> }
UrlOwners  == { <<"o">>, <<>>, <<"o",".","g","i","t">> }
UrlRepos   == { <<"r">>, <<"r",".","g","i","t">>, <<".","g","i","t">>, <<"r",".","g","i","t","h","u","b",".","i","o">>, <<>> }
UrlTails   == { <<>>, <<"/">>, <<"/","t","r","e","e","/","d","e","v">>, <<"/","t","r","e","e","/","d","e","v","/","x",".","p","y">>, <<" ">> }

\* url strings: scheme, host, owner, repo and tail in every combination, and
\* urls that stop after the owner
Urls ==
    { sc \o h \o <<"/">> \o o \o <<"/">> \o r \o tl :
        sc \in UrlSchemes, h \in UrlHosts, o \in UrlOwners, r \in UrlRepos,
        tl \in UrlTails }
    \cup { sc \o h \o <<"/">> \o o : sc \in UrlSchemes, h \in UrlHosts,
                                     o \in UrlOwners }

InitUrl ==
    /\ uUrl \in Urls
    /\ uFetch = NoRef
    /\ uApp = NoRef

\* no url is being parsed
IdleUrl ==
    /\ uUrl = <<>>
    /\ uFetch = NoRef
    /\ uApp = NoRef

\* fetch_repo line 114
ParseGithubUrl ==
    /\ uUrl /= <<>>
    /\ uFetch = NoRef
    /\ uFetch' = parse_github_url(uUrl)
    /\ UNCHANGED <<uUrl, uApp>>
    /\ UNCHANGED <<clsVars, fetchVars, pipeVars>>

\* download_github_repo lines 53-60
DownloadParse ==
    /\ uUrl /= <<>>
    /\ uApp = NoRef
    /\ uApp' = download_github_repo_parse(uUrl)
    /\ UNCHANGED <<uUrl, uFetch>>
    /\ UNCHANGED <<clsVars, fetchVars, pipeVars>>

-----------------------------------------------------------------------------
(* Specifications                                                          *)

Step(s) ==
    \/ \E r \in PipelineRepos : Start(s, r)
    \/ StartInvalid(s)
    \/ ListDir(s)
    \/ VisitItem(s)
    \/ ReturnDir(s)
    \/ ConvertRepoToText(s)
    \/ FlattenText(s)
    \/ SplitText(s)
    \/ ListIndexes(s)
    \/ DeleteIndex(s)
    \/ CreateIndex(s)
    \/ SleepDone(s)
    \/ FitEncoder(s)
    \/ Upsert(s)
    \/ Finish(s)
    \/ Raise(s)

\* the application with its sessions running concurrently
Init == IdleCls /\ IdleUrl /\ IdleFetch /\ InitPipe

Next ==
    \/ \E s \in Sessions : Step(s)
    \/ ProviderReady

Spec == Init /\ [][Next]_vars

\* one session: its runs follow one another
NextSeq ==
    \/ Step("s1")
    \/ ProviderReady

SpecSeq == Init /\ [][NextSeq]_vars

\* the recursive download of one repository
NextListing ==
    \/ \E r \in ListingRepos : Start("s1", r)
    \/ ListDir("s1")
    \/ VisitItem("s1")
    \/ ReturnDir("s1")

SpecListing == Init /\ [][NextListing]_vars

\* fetch_repo on one url
InitArchive == IdleCls /\ IdleUrl /\ InitFetch /\ IdlePipe

NextArchive ==
    \/ FetchStart
    \/ TryDownload
    \/ DownloadFailed
    \/ Extract
    \/ ExtractFails
    \/ WalkDir
    \/ VisitFile
    \/ FetchDone

SpecArchive == InitArchive /\ [][NextArchive]_vars

\* both strategies on the same repository: the recursive download followed
\* by convert_repo_to_text, and fetch_repo on the archive of its files, one of
\* which may hold binary content
EquivTrees ==
    UNION { { { File(p, IF p = b THEN BinaryContent ELSE TextContent) :
                  p \in RepoTree(r) } : b \in RepoTree(r) \cup {<<>>} } :
            r \in ListingRepos }

InitEquiv ==
    /\ IdleCls
    /\ IdleUrl
    /\ IdlePipe
    /\ fPc = "start"
    /\ fBranch = ""
    /\ fRemote \in {{}, {"main"}}
    /\ fTree \in EquivTrees
    /\ fUrls = <<>>
    /\ fNext = 1
    /\ fTried = <<>>
    /\ fSuccess = FALSE
    /\ fUsed = ""
    /\ fWalk = <<>>
    /\ fFiles = <<>>
    /\ fCopied = 0
    /\ fSkipped = 0
    /\ fOut = {}

\* the button is pressed with the url of the repository the archive holds
StartSame ==
    \E r \in ListingRepos :
        /\ RepoTree(r) = {f.path : f \in fTree}
        /\ Start("s1", r)

NextEquiv ==
    \/ StartSame
    \/ ListDir("s1")
    \/ VisitItem("s1")
    \/ ReturnDir("s1")
    \/ ConvertRepoToText("s1")
    \/ FetchStart
    \/ TryDownload
    \/ DownloadFailed
    \/ Extract
    \/ ExtractFails
    \/ WalkDir
    \/ VisitFile
    \/ FetchDone

SpecEquiv == InitEquiv /\ [][NextEquiv]_vars

\* both parsers on one url
InitParse == IdleCls /\ InitUrl /\ IdleFetch /\ IdlePipe

NextParse ==
    \/ ParseGithubUrl
    \/ DownloadParse

SpecParse == InitParse /\ [][NextParse]_vars

\* the classifier on one file
InitClassify == InitCls /\ IdleUrl /\ IdleFetch /\ IdlePipe

NextClassify == ClassifyFile

SpecClassify == InitClassify /\ [][NextClassify]_vars

-----------------------------------------------------------------------------
(* Claims                                                                  *)

\* C1: after any sequence of pipeline runs in the same working directory, the
\* chunks queryable in the index when a run has finished are exactly those
\* derived from the files of the repository that run ingested; nothing that
\* came from an earlier run is retrievable.
C1_OnlyLatestRepoQueryable ==
    \A s \in Sessions :
        pc[s] = "done" => \A e \in index.entries : e.origin = repo[s]

IssuedBefore(s, i, op) == \E j \in 1..(i - 1) : calls[s][j].op = op

\* C2: in every run of the index build, an index found under the name is
\* deleted before the create is issued, the create is never issued while the
\* index the run found still exists, no upsert precedes the run's successful
\* create, and no upsert lands in the index the run found.
C2_DeleteCreateUpsertOrder ==
    \A s \in Sessions : \A i \in 1..Len(calls[s]) :
        LET c == calls[s][i] IN
        /\ c.op = "create" =>
             /\ existing[s] => IssuedBefore(s, i, "delete")
             /\ seen[s] /= 0 => c.gen /= seen[s]
        /\ c.op = "upsert" =>
             /\ \E j \in 1..(i - 1) :
                    calls[s][j].op = "create" /\ calls[s][j].made /= 0
             /\ seen[s] /= 0 => c.gen /= seen[s]

\* a run that found an index under the name has replaced it and is populating
\* the new one
C2_Witness ==
    \E i \in 1..Len(calls["s1"]) :
        /\ existing["s1"]
        /\ calls["s1"][i].op = "upsert"
        /\ calls["s1"][i].gen > seen["s1"]

\* C3: the builder never upserts into a newly created index before the
\* provider reports it ready; with the index not ready at the deadline the
\* build fails with IndexProvisioningTimeout instead of upserting.
C3_UpsertOnlyWhenReady ==
    \A s \in Sessions : \A i \in 1..Len(calls[s]) :
        (calls[s][i].op = "upsert" /\ calls[s][i].gen /= 0) => calls[s][i].ready

\* the index under the name was created by the current run of session s
CreatedByRun(s) ==
    \E i \in 1..Len(calls[s]) :
        calls[s][i].op = "create" /\ calls[s][i].made = index.gen

\* C4: when a run ends in a fatal error, the index it created is not visible
\* under the target name unless it holds all chunks of the run.
C4_NoPartialIndexAfterFailure ==
    \A s \in Sessions :
        (pc[s] = "failed" /\ index.gen /= 0 /\ CreatedByRun(s))
            => index.entries = chunks[s]

\* the run of session s is between its list_indexes call and its end
InRebuild(s) == calls[s] /= <<>> /\ pc[s] \notin {"done", "failed"}

\* C5: at most one rebuild of the index name is in flight at any time, and
\* the index a run in flight has created is not deleted or replaced under it.
C5_OneRebuildInFlight ==
    /\ Cardinality({s \in Sessions : InRebuild(s)}) <= 1
    /\ \A s \in Sessions : \A i \in 1..Len(calls[s]) :
         (InRebuild(s) /\ calls[s][i].made /= 0) => index.gen = calls[s][i].made

\* the default-branch names in the order the archive strategy tries them
Candidates == <<"master", "main">>

\* C6: with no branch in the url the candidates are tried in their fixed
\* order, the first one whose download succeeds is used and ends the loop, and
\* the download fails only after every candidate was tried and failed; with a
\* branch in the url only that branch is tried.
C6_BranchFallbackOrder ==
    /\ IsPrefix(fTried, IF fBranch = "" THEN Candidates ELSE <<fBranch>>)
    /\ \A i \in 1..(Len(fTried) - 1) : fTried[i] \notin fRemote
    /\ fSuccess => /\ fTried /= <<>>
                   /\ Last(fTried) \in fRemote
                   /\ fUsed = Last(fTried)
    /\ fPc \in {"extract", "walk", "done"} => fSuccess
    /\ (fPc = "failed" /\ ~fSuccess) =>
         /\ fTried = (IF fBranch = "" THEN Candidates ELSE <<fBranch>>)
         /\ \A i \in 1..Len(fTried) : fTried[i] \notin fRemote

\* the first candidate failed and the second one was used
C6_Witness ==
    /\ fBranch = ""
    /\ fTried = Candidates
    /\ fSuccess
    /\ fUsed = "main"
    /\ fPc = "done"

\* C7: in the recursive-listing strategy a failure to fetch one file's content
\* never ends the run: the file is skipped and the run goes on.
C7_FileFetchFailureNotFatal ==
    \A s \in Sessions : ~(pc[s] = "failed" /\ err[s] = "file fetch")

\* C8: no listing is requested for a directory named in the vendor denylist
\* or for anything beneath one, and no content is requested for a file beneath
\* one or for a file whose lower-cased extension is in the denylist.
C8_DenylistBeforeRequest ==
    \A s \in Sessions : \A q \in requests[s] :
        /\ q.kind = "list" =>
             \A k \in 1..Len(q.path) : q.path[k] \notin SKIP_DIR_NAMES
        /\ q.kind = "download" =>
             /\ \A k \in 1..(Len(q.path) - 1) : q.path[k] \notin SKIP_DIR_NAMES
             /\ Lower(splitext(Last(q.path))) \notin APP_SKIP_EXTENSIONS

\* the download of a repository with vendor directories and denylisted files
\* is over, and it listed a sub-directory and fetched a file
C8_Witness ==
    /\ pc["s1"] = "convert"
    /\ repo["s1"] = "A"
    /\ [kind |-> "download", path |-> <<A_PY>>] \in requests["s1"]
    /\ [kind |-> "list", path |-> <<>>] \in requests["s1"]

\* the extension of a path: the part of its last segment from the last dot,
\* when that dot is neither the first nor the last character
RefExtension(path) ==
    LET n == Last(path)
        D == {i \in 2..(Len(n) - 1) :
                n[i] = "." /\ \A j \in (i + 1)..Len(n) : n[j] /= "."}
    IN  IF D = {} THEN <<>>
        ELSE LET i == CHOOSE x \in D : TRUE
             IN  [k \in 1..(Len(n) - i + 1) |-> LowerChar(n[i + k - 1])]

\* the number of bytes of a sample that are not tab, LF, CR, 0x20-0x7E or >= 0x80
RefNonText(sample) ==
    Cardinality({i \in 1..Len(sample) :
        ~(sample[i] \in {9, 10, 13} \/ sample[i] \in 32..126 \/ sample[i] >= 128)})

\* the reference decision of the classifier
RefDecision(path, content, ioErr) ==
    LET sample == [i \in 1..(IF Len(content) < TEXT_SAMPLE_SIZE THEN Len(content)
                             ELSE TEXT_SAMPLE_SIZE) |-> content[i]]
    IN  IF RefExtension(path) \in IMAGE_EXTS \cup SKIP_EXTENSIONS THEN "SKIP"
        ELSE IF \E k \in 1..Len(path) : path[k] \in SKIP_DIR_NAMES THEN "SKIP"
        ELSE IF ioErr THEN "SKIP"
        ELSE IF Len(sample) = 0 THEN "KEEP"
        ELSE IF \E i \in 1..Len(sample) : sample[i] = 0 THEN "SKIP"
        ELSE IF 10 * RefNonText(sample) > 3 * Len(sample) THEN "SKIP"
        ELSE "KEEP"

\* C9: for every relative path and byte sample the classifier's decision is
\* the reference decision: SKIP on a denylisted lower-cased extension, else
\* SKIP on a vendor-directory segment, else KEEP on an empty sample, else SKIP
\* on a NUL byte, else SKIP exactly when more than 0.30 of the bytes are
\* non-text; SKIP when sampling raises.
C9_ClassifierMatchesReference ==
    cDecision /= "none" => cDecision = RefDecision(cPath, cContent, cIoErr)

\* a sample whose non-text fraction is exactly 0.30 was classified
C9_Witness ==
    /\ cPath = <<A_PY>>
    /\ ~cIoErr
    /\ Len(cContent) = 10
    /\ RefNonText(cContent) = 3
    /\ cDecision = "KEEP"

\* C10: ingestion counts every file of the repository once, as kept or as
\* skipped: kept + skipped is the number of files, the files beneath a vendor
\* directory being among the skipped.
C10_EveryFileCounted ==
    fPc = "done" => fCopied + fSkipped = Cardinality(fTree)

\* the recursive download ran without a fault: nothing was reported, and
\* every file written holds the content of the file it was fetched for
CleanDownload(s) ==
    /\ err[s] = ""
    /\ \A f \in localDir : f.body = "content" /\ f.origin = repo[s]

\* C11: the two acquisition strategies are equivalent: for every repository
\* tree the files the recursive-listing path passes on to the corpus are the
\* files the archive-download path keeps.
C11_StrategiesEquivalent ==
    (pc["s1"] = "flatten" /\ CleanDownload("s1") /\ fPc = "done")
        => {f.path : f \in combinedFile} = fOut

\* the position of the k-th slash of u
NthSlash(u, k) ==
    LET P == {i \in 1..Len(u) : u[i] = "/"}
    IN  CHOOSE i \in P : Cardinality({j \in P : j < i}) = k - 1

\* the path segment of u between its k-th slash and the next one (or the end)
PathSegment(u, k) ==
    LET P == {i \in 1..Len(u) : u[i] = "/"}
        a == NthSlash(u, k)
        b == IF Cardinality(P) > k THEN NthSlash(u, k + 1) ELSE Len(u) + 1
    IN  [i \in 1..(b - a - 1) |-> u[a + i]]

\* a segment with one trailing .git taken off
WithoutGitSuffix(x) ==
    LET n == Len(x)
    IN  IF n >= 4 /\ x[n - 3] = "." /\ x[n - 2] = "g" /\ x[n - 1] = "i" /\ x[n] = "t"
        THEN [i \in 1..(n - 4) |-> x[i]] ELSE x

\* a reference that parsing returned is the one the url names
NamesTheUrl(out, url) ==
    out.st = "ok" =>
        /\ out.owner /= <<>>
        /\ out.name /= <<>>
        /\ out.owner = PathSegment(Strip(url), 3)
        /\ out.name = WithoutGitSuffix(PathSegment(Strip(url), 4))

\* C12: for every url string parsing either fails or returns a reference
\* whose owner and name are non-empty and are the owner and repo segments of
\* the url, the name with only a trailing .git removed.
C12_ParsedReferenceNamesUrl ==
    /\ NamesTheUrl(uFetch, uUrl)
    /\ NamesTheUrl(uApp, uUrl)

=============================================================================
